---- MODULE Spec2Model ----
(***************************************************************************)
(* Booking availability and payment lifecycle of the listings app.        *)
(*                                                                         *)
(* Every ORM statement runs in autocommit mode: the views and serializers  *)
(* open no transaction and take no lock, so a request handler is a         *)
(* sequence of separately committed database statements, and the           *)
(* statements of concurrent requests interleave.  A handler is therefore   *)
(* modelled as one action per database statement or gateway call, with     *)
(* the request's local variables kept in proc[w].                          *)
(***************************************************************************)
EXTENDS Integers, FiniteSets, Sequences, TLC

\* Bounds of the model.
MaxDate == 3
MaxBookings == 2
MaxPayments == 2

Dates == 1..MaxDate
Props == {"p1", "p2"}
Workers == {"w1", "w2"}

\* Booking.STATUS_CHOICES and Payment.PAYMENT_STATUS_CHOICES
STATUS_CHOICES == {"pending", "confirmed", "canceled"}
PAYMENT_STATUS_CHOICES == {"pending", "completed", "failed"}

\* An attribute the request does not carry (attrs.get(...) is None).
NoDate == 0
NoValue == "none"

VARIABLES
    bookings,       \* the booking table: booking_id -> row
    payments,       \* the payment table: payment_id -> row
    proc,           \* per worker: the request it is handling and its locals
    queue           \* booking ids handed to send_booking_confirmation_email.delay

vars == <<bookings, payments, proc, queue>>

\* No reference: a request without tx_ref, a Payment without transaction_id.
NoRef == << >>

\* booking_reference=f'BK-{booking.booking_id}'
BookingReference(b) == <<"BK", b>>

\* A booking instance that has not been read (no self.instance).
NoRow == [property |-> NoValue, start_date |-> NoDate, end_date |-> NoDate, status |-> NoValue]

\* A worker that handles no request.
Idle ==
    [op |-> "idle", pc |-> "idle", res |-> NoValue, bid |-> 0, seen |-> 0,
     property_id |-> NoValue, start_date |-> NoDate, end_date |-> NoDate,
     status |-> NoValue, inst |-> NoRow,
     ref |-> NoRef, pid |-> 0, found |-> NoValue, pstatus |-> NoValue,
     ptx |-> NoRef, gw |-> NoValue]

\* The worker's record once its handler has ended: the request, its
\* response, and the rows it was about; the instances in memory are gone.
Finished(rec, res) ==
    [rec EXCEPT !.pc = "done", !.res = res, !.inst = NoRow,
                !.pstatus = NoValue, !.ptx = NoRef]

Free(w) == proc[w].pc = "idle"

\* The overlap query with end_date__gte in place of end_date__gt.
OverlappingBookingsClosed(rows, property_id, start_date, end_date, exclude) ==
    {b \in DOMAIN rows :
        /\ rows[b].property = property_id
        /\ rows[b].start_date < end_date
        /\ rows[b].end_date >= start_date
        /\ rows[b].status = "confirmed"
        /\ b # exclude}

\* Booking.objects.filter(property_id=..., start_date__lt=end_date,
\*     end_date__gt=start_date, status='confirmed'), then
\*     .exclude(booking_id=self.instance.booking_id) when updating
\* (exclude = 0 when there is no instance).
OverlappingBookings(rows, property_id, start_date, end_date, exclude) ==
    {b \in DOMAIN rows :
        /\ rows[b].property = property_id
        /\ rows[b].start_date < end_date
        /\ rows[b].end_date > start_date
        /\ rows[b].status = "confirmed"
        /\ b # exclude}

\* Validate with the overlap query run before the comparison of the dates.
ValidateOverlapFirst(rows, property_id, start_date, end_date, exclude) ==
    IF start_date # NoDate /\ end_date # NoDate
    THEN IF property_id # NoValue
            /\ OverlappingBookings(rows, property_id, start_date, end_date, exclude) # {}
         THEN "overlap_error"
         ELSE IF start_date >= end_date THEN "date_error" ELSE "ok"
    ELSE "ok"

\* BookingDetailSerializer.validate: the outcome for the given attrs.
Validate(rows, property_id, start_date, end_date, exclude) ==
    IF start_date # NoDate /\ end_date # NoDate
    THEN IF start_date >= end_date
         THEN "date_error"
         ELSE IF property_id # NoValue
                 /\ OverlappingBookings(rows, property_id, start_date, end_date, exclude) # {}
              THEN "overlap_error"
              ELSE "ok"
    ELSE "ok"

\* Booking.clean: the queryset of the model-level check, which filters on
\* property and dates only.
CleanOverlapping(rows, property, start_date, end_date) ==
    {b \in DOMAIN rows :
        /\ rows[b].property = property
        /\ rows[b].start_date < end_date
        /\ rows[b].end_date > start_date}

\* Booking.clean: the outcome for an instance with the given fields.
Clean(rows, property, start_date, end_date) ==
    IF start_date >= end_date
    THEN "date_error"
    ELSE IF CleanOverlapping(rows, property, start_date, end_date) # {}
         THEN "overlap_error"
         ELSE "ok"

Init ==
    /\ bookings = << >>
    /\ payments = << >>
    /\ proc = [w \in Workers |-> Idle]
    /\ queue = {}

\* The response has been sent; the worker takes the next request.
Respond(w) ==
    /\ proc[w].pc = "done"
    /\ proc' = [proc EXCEPT ![w] = Idle]
    /\ UNCHANGED <<bookings, payments, queue>>

(***************************************************************************)
(* POST /api/bookings/ : is_valid() runs validate, perform_create saves    *)
(* the row and hands the booking id to the task queue.                     *)
(***************************************************************************)
\* serializer.is_valid(): validate(attrs) with no instance.  seen is the
\* number of rows the overlap query could read.
CreateValidate(w, property_id, start_date, end_date, status) ==
    /\ Free(w)
    /\ LET v == Validate(bookings, property_id, start_date, end_date, 0)
           rec == [Idle EXCEPT !.op = "create", !.pc = "save",
                               !.property_id = property_id, !.start_date = start_date,
                               !.end_date = end_date, !.status = status,
                               !.seen = Len(bookings)]
       IN  proc' = [proc EXCEPT ![w] = IF v = "ok" THEN rec ELSE Finished(rec, v)]
    /\ UNCHANGED <<bookings, payments, queue>>

\* serializer.save(user=...): INSERT of the validated attrs.
CreateSave(w) ==
    /\ proc[w].op = "create" /\ proc[w].pc = "save"
    /\ Len(bookings) < MaxBookings
    /\ bookings' = Append(bookings,
           [property |-> proc[w].property_id, start_date |-> proc[w].start_date,
            end_date |-> proc[w].end_date, status |-> proc[w].status])
    /\ proc' = [proc EXCEPT ![w].pc = "enqueue", ![w].bid = Len(bookings) + 1]
    /\ UNCHANGED <<payments, queue>>

\* send_booking_confirmation_email.delay(booking id); the handler returns
\* without waiting for the task.
CreateEnqueue(w) ==
    /\ proc[w].op = "create" /\ proc[w].pc = "enqueue"
    /\ queue' = queue \cup {proc[w].bid}
    /\ proc' = [proc EXCEPT ![w] = Finished(proc[w], "created")]
    /\ UNCHANGED <<bookings, payments>>

(***************************************************************************)
(* PUT/PATCH /api/bookings/{id}/ : get_object(), is_valid() with the       *)
(* instance, then ModelSerializer.update sets the attrs on the instance    *)
(* read by get_object() and save() writes every column of it.              *)
(***************************************************************************)
\* self.get_object(): the instance is the row as it is now.
UpdateGet(w, b, property_id, start_date, end_date, status) ==
    /\ Free(w)
    /\ LET rec == [Idle EXCEPT !.op = "update", !.pc = "validate", !.bid = b,
                               !.property_id = property_id, !.start_date = start_date,
                               !.end_date = end_date, !.status = status]
       IN  proc' = [proc EXCEPT ![w] =
               IF b \in DOMAIN bookings
               THEN [rec EXCEPT !.inst = bookings[b]]
               ELSE Finished(rec, "not_found")]
    /\ UNCHANGED <<bookings, payments, queue>>

\* serializer.is_valid(): validate(attrs) with self.instance set.
UpdateValidate(w) ==
    /\ proc[w].op = "update" /\ proc[w].pc = "validate"
    /\ LET v == Validate(bookings, proc[w].property_id, proc[w].start_date,
                         proc[w].end_date, proc[w].bid) IN
       proc' = [proc EXCEPT ![w] =
           IF v = "ok"
           THEN [proc[w] EXCEPT !.pc = "save", !.seen = Len(bookings)]
           ELSE Finished([proc[w] EXCEPT !.seen = Len(bookings)], v)]
    /\ UNCHANGED <<bookings, payments, queue>>

\* ModelSerializer.update: setattr for every attr of the request, then
\* instance.save(), an UPDATE of all columns.
UpdatedRow(inst, property_id, start_date, end_date, status) ==
    [property   |-> IF property_id # NoValue THEN property_id ELSE inst.property,
     start_date |-> IF start_date # NoDate THEN start_date ELSE inst.start_date,
     end_date   |-> IF end_date # NoDate THEN end_date ELSE inst.end_date,
     status     |-> IF status # NoValue THEN status ELSE inst.status]

UpdateSave(w) ==
    /\ proc[w].op = "update" /\ proc[w].pc = "save"
    /\ bookings' = [bookings EXCEPT ![proc[w].bid] =
           UpdatedRow(proc[w].inst, proc[w].property_id, proc[w].start_date,
                      proc[w].end_date, proc[w].status)]
    /\ proc' = [proc EXCEPT ![w] = Finished(proc[w], "updated")]
    /\ UNCHANGED <<payments, queue>>

(***************************************************************************)
(* Model-level validation: Model.full_clean() runs Booking.clean on the    *)
(* instance whose dates were changed; the instance is saved when clean     *)
(* raises nothing.                                                         *)
(***************************************************************************)
CleanAndSave(w, b, start_date, end_date) ==
    /\ Free(w)
    /\ b \in DOMAIN bookings
    /\ LET v == Clean(bookings, bookings[b].property, start_date, end_date) IN
       /\ bookings' = IF v = "ok"
                      THEN [bookings EXCEPT ![b].start_date = start_date,
                                            ![b].end_date = end_date]
                      ELSE bookings
       /\ proc' = [proc EXCEPT ![w] =
              Finished([Idle EXCEPT !.op = "clean", !.bid = b,
                                    !.property_id = bookings[b].property,
                                    !.start_date = start_date, !.end_date = end_date,
                                    !.seen = Len(bookings)],
                       IF v = "ok" THEN "updated" ELSE v)]
    /\ UNCHANGED <<payments, queue>>

(***************************************************************************)
(* POST /api/payments/initiate/                                            *)
(***************************************************************************)
\* Booking.objects.get(booking_id=booking_id), 404 when there is none.
InitiateGet(w, b) ==
    /\ Free(w)
    /\ LET rec == [Idle EXCEPT !.op = "initiate", !.pc = "create", !.bid = b]
       IN  proc' = [proc EXCEPT ![w] =
               IF b \in DOMAIN bookings THEN rec ELSE Finished(rec, "not_found")]
    /\ UNCHANGED <<bookings, payments, queue>>

\* The INSERT with no unique constraint on the payment table.
PaymentInsertUnchecked(rows, b) == TRUE

\* The INSERT of Payment.objects.create is refused by the database when a
\* row with the same booking (OneToOneField) or the same booking_reference
\* (unique=True) exists.
PaymentInsertAllowed(rows, b) ==
    \A q \in DOMAIN rows :
        /\ rows[q].booking # b
        /\ rows[q].booking_reference # BookingReference(b)

\* An insert that, when the booking already has a payment, resets that
\* payment to pending instead of being refused (update_or_create).
InitiateCreateUpsert(w) ==
    /\ proc[w].op = "initiate" /\ proc[w].pc = "create"
    /\ IF PaymentInsertAllowed(payments, proc[w].bid)
       THEN /\ Len(payments) < MaxPayments
            /\ payments' = Append(payments,
                   [booking |-> proc[w].bid,
                    booking_reference |-> BookingReference(proc[w].bid),
                    status |-> "pending", transaction_id |-> NoRef])
            /\ proc' = [proc EXCEPT ![w].pc = "gateway", ![w].pid = Len(payments) + 1,
                                    ![w].pstatus = "pending", ![w].ptx = NoRef]
       ELSE LET q == CHOOSE q \in DOMAIN payments : payments[q].booking = proc[w].bid IN
            /\ payments' = [payments EXCEPT ![q].status = "pending"]
            /\ proc' = [proc EXCEPT ![w].pc = "gateway", ![w].pid = q,
                                    ![w].pstatus = "pending",
                                    ![w].ptx = payments[q].transaction_id]
    /\ UNCHANGED <<bookings, queue>>

\* Payment.objects.create(booking=..., amount=..., booking_reference=...):
\* status takes the column default; an IntegrityError is not caught.
InitiateCreate(w) ==
    /\ proc[w].op = "initiate" /\ proc[w].pc = "create"
    /\ IF PaymentInsertAllowed(payments, proc[w].bid)
       THEN /\ Len(payments) < MaxPayments
            /\ payments' = Append(payments,
                   [booking |-> proc[w].bid,
                    booking_reference |-> BookingReference(proc[w].bid),
                    status |-> "pending", transaction_id |-> NoRef])
            /\ proc' = [proc EXCEPT ![w].pc = "gateway", ![w].pid = Len(payments) + 1,
                                    ![w].pstatus = "pending", ![w].ptx = NoRef]
       ELSE /\ payments' = payments
            /\ proc' = [proc EXCEPT ![w] = Finished(proc[w], "integrity_error")]
    /\ UNCHANGED <<bookings, queue>>

\* A gateway call whose success marks the payment completed at once.
InitiateCallCompletes(w, outcome) ==
    /\ proc[w].op = "initiate" /\ proc[w].pc = "gateway"
    /\ proc' = [proc EXCEPT ![w].gw = outcome, ![w].pc = "save",
           ![w].ptx = IF outcome = "success"
                      THEN BookingReference(proc[w].bid) ELSE proc[w].ptx,
           ![w].pstatus = IF outcome = "success" THEN "completed" ELSE "failed"]
    /\ UNCHANGED <<bookings, payments, queue>>

\* requests.post(chapa_url, ...): the answer is a success, a non-success
\* response, or a RequestException.
InitiateCall(w, outcome) ==
    /\ proc[w].op = "initiate" /\ proc[w].pc = "gateway"
    /\ proc' = [proc EXCEPT ![w].gw = outcome, ![w].pc = "save",
           ![w].ptx = IF outcome = "success"
                      THEN BookingReference(proc[w].bid) ELSE proc[w].ptx,
           ![w].pstatus = IF outcome = "success" THEN proc[w].pstatus ELSE "failed"]
    /\ UNCHANGED <<bookings, payments, queue>>

\* A save that does not write the status column.
SavedPaymentKeepsStatus(row, pstatus, ptx) ==
    [row EXCEPT !.transaction_id = ptx]

\* payment.save(): an UPDATE of all columns from the instance in memory.
SavedPayment(row, pstatus, ptx) ==
    [row EXCEPT !.status = pstatus, !.transaction_id = ptx]

InitiateSave(w) ==
    /\ proc[w].op = "initiate" /\ proc[w].pc = "save"
    /\ payments' = [payments EXCEPT ![proc[w].pid] =
           SavedPayment(payments[proc[w].pid], proc[w].pstatus, proc[w].ptx)]
    /\ proc' = [proc EXCEPT ![w] =
           Finished(proc[w],
                    IF proc[w].gw = "success" THEN "initiated"
                    ELSE IF proc[w].gw = "rejected" THEN "gateway_error"
                    ELSE "transport_error")]
    /\ UNCHANGED <<bookings, queue>>

(***************************************************************************)
(* GET /api/payments/verify/?tx_ref=...                                    *)
(***************************************************************************)
\* A look-up that takes any payment row, whatever its reference.
PaymentsAnyReference(rows, tx_ref) == DOMAIN rows

\* The payment rows Payment.objects.get(booking_reference=tx_ref) matches.
PaymentsByReference(rows, tx_ref) ==
    {q \in DOMAIN rows : rows[q].booking_reference = tx_ref}

\* 400 without tx_ref, 404 when no Payment has the reference; otherwise the
\* Payment is read into memory (found is the status it was read with).
VerifyGet(w, tx_ref) ==
    /\ Free(w)
    /\ LET rec == [Idle EXCEPT !.op = "verify", !.pc = "gateway", !.ref = tx_ref]
       IN  proc' = [proc EXCEPT ![w] =
               IF tx_ref = NoRef
               THEN Finished(rec, "bad_request")
               ELSE IF PaymentsByReference(payments, tx_ref) = {}
               THEN Finished(rec, "not_found")
               ELSE LET q == CHOOSE q \in PaymentsByReference(payments, tx_ref) : TRUE IN
                    [rec EXCEPT !.pid = q, !.bid = payments[q].booking,
                                !.found = payments[q].status,
                                !.pstatus = payments[q].status,
                                !.ptx = payments[q].transaction_id]]
    /\ UNCHANGED <<bookings, payments, queue>>

\* A verification that finalizes the payment as failed when the gateway
\* cannot be reached.
VerifyCallFinalizes(w, outcome) ==
    /\ proc[w].op = "verify" /\ proc[w].pc = "gateway"
    /\ proc' = [proc EXCEPT ![w] =
           IF outcome = "success"
           THEN [proc[w] EXCEPT !.gw = outcome, !.pc = "load", !.pstatus = "completed"]
           ELSE IF outcome = "failed"
           THEN [proc[w] EXCEPT !.gw = outcome, !.pc = "save", !.pstatus = "failed"]
           ELSE Finished([proc[w] EXCEPT !.gw = outcome],
                         IF outcome = "rejected" THEN "verification_failed"
                         ELSE "transport_error")]
    /\ payments' = IF outcome = "transport_error"
                   THEN [payments EXCEPT ![proc[w].pid].status = "failed"]
                   ELSE payments
    /\ UNCHANGED <<bookings, queue>>

\* requests.get(chapa_url, ...): "success" is a 200 whose outer and inner
\* status are success, "failed" a 200 with outer status success and another
\* inner status, "rejected" any other response, "transport_error" a
\* RequestException.  The last two return without a write.
VerifyCall(w, outcome) ==
    /\ proc[w].op = "verify" /\ proc[w].pc = "gateway"
    /\ proc' = [proc EXCEPT ![w] =
           IF outcome = "success"
           THEN [proc[w] EXCEPT !.gw = outcome, !.pc = "load", !.pstatus = "completed"]
           ELSE IF outcome = "failed"
           THEN [proc[w] EXCEPT !.gw = outcome, !.pc = "save", !.pstatus = "failed"]
           ELSE Finished([proc[w] EXCEPT !.gw = outcome],
                         IF outcome = "rejected" THEN "verification_failed"
                         ELSE "transport_error")]
    /\ UNCHANGED <<bookings, payments, queue>>

\* payment.booking: the related Booking is read when first accessed.
VerifyLoad(w) ==
    /\ proc[w].op = "verify" /\ proc[w].pc = "load"
    /\ proc' = [proc EXCEPT ![w].inst = bookings[proc[w].bid], ![w].pc = "confirm"]
    /\ UNCHANGED <<bookings, payments, queue>>

\* payment.booking.status = 'confirmed'; payment.booking.save()
ConfirmedBooking(inst) == [inst EXCEPT !.status = "confirmed"]

VerifyConfirm(w) ==
    /\ proc[w].op = "verify" /\ proc[w].pc = "confirm"
    /\ bookings' = [bookings EXCEPT ![proc[w].bid] = ConfirmedBooking(proc[w].inst)]
    /\ proc' = [proc EXCEPT ![w].pc = "save", ![w].inst = NoRow]
    /\ UNCHANGED <<payments, queue>>

\* payment.save(), then the 200 response with payment.status.
VerifySave(w) ==
    /\ proc[w].op = "verify" /\ proc[w].pc = "save"
    /\ payments' = [payments EXCEPT ![proc[w].pid] =
           SavedPayment(payments[proc[w].pid], proc[w].pstatus, proc[w].ptx)]
    /\ proc' = [proc EXCEPT ![w] = Finished(proc[w], proc[w].pstatus)]
    /\ UNCHANGED <<bookings, queue>>

(***************************************************************************)
(* A handler that has started ends without running its remaining           *)
(* statements: the worker is killed, or a statement raises an exception    *)
(* the handler does not catch.  No transaction is open, so what has been   *)
(* written stays written.  Among the statements that can raise are the      *)
(* look-ups of names defined outside these files or not defined by the     *)
(* models: settings.env (views.py 78, 143), payment.reference (88),        *)
(* booking.listing (92), booking.id (47).                                  *)
(***************************************************************************)
Abort(w) ==
    /\ proc[w].pc \notin {"idle", "done"}
    /\ proc' = [proc EXCEPT ![w] = Finished(proc[w], "server_error")]
    /\ UNCHANGED <<bookings, payments, queue>>

(***************************************************************************)
(* Requests and their inputs.                                              *)
(***************************************************************************)
\* A PATCH that carries the status only.
StatusRequest(w) ==
    \E b \in 1..MaxBookings, st \in STATUS_CHOICES :
        UpdateGet(w, b, NoValue, NoDate, NoDate, st)

\* A PUT that carries property, dates and possibly the status.
PutRequest(w) ==
    \E b \in 1..MaxBookings, p \in Props, s \in Dates, e \in Dates,
       st \in STATUS_CHOICES \cup {NoValue} :
        UpdateGet(w, b, p, s, e, st)

CreateRequest(w) ==
    \E p \in Props, s \in Dates, e \in Dates, st \in STATUS_CHOICES :
        CreateValidate(w, p, s, e, st)

CleanRequest(w) ==
    \E b \in 1..MaxBookings, s \in Dates, e \in Dates : CleanAndSave(w, b, s, e)

\* The administrative cancellation: a PATCH with status canceled.
CancelRequest(w) ==
    \E b \in 1..MaxBookings : UpdateGet(w, b, NoValue, NoDate, NoDate, "canceled")

\* The booking ids of the table, and one that no booking has.
InitiateRequest(w) ==
    \E b \in 1..(MaxBookings + 1) : InitiateGet(w, b)

VerifyRequest(w) ==
    \E tx_ref \in {BookingReference(b) : b \in 1..(MaxBookings + 1)} \cup {NoRef} :
        VerifyGet(w, tx_ref)

GatewayAnswer(w) ==
    \/ \E outcome \in {"success", "rejected", "transport_error"} : InitiateCall(w, outcome)
    \/ \E outcome \in {"success", "failed", "rejected", "transport_error"} :
          VerifyCall(w, outcome)

(***************************************************************************)
(* Spec: the booking endpoints, requests served one at a time.             *)
(***************************************************************************)
Next ==
    \/ CreateRequest("w1")
    \/ CreateSave("w1")
    \/ CreateEnqueue("w1")
    \/ StatusRequest("w1")
    \/ PutRequest("w1")
    \/ UpdateValidate("w1")
    \/ UpdateSave("w1")
    \/ CleanRequest("w1")
    \/ Respond("w1")

Spec == Init /\ [][Next]_vars

(***************************************************************************)
(* SpecCreate: booking creation and model-level validation, one request    *)
(* at a time.                                                              *)
(***************************************************************************)
NextCreate ==
    \/ \E p \in Props, s \in Dates, e \in Dates, st \in {"pending", "confirmed"} :
          CreateValidate("w1", p, s, e, st)
    \/ CreateSave("w1")
    \/ CreateEnqueue("w1")
    \/ CleanRequest("w1")
    \/ Respond("w1")

SpecCreate == Init /\ [][NextCreate]_vars

(***************************************************************************)
(* SpecRace: two workers create confirmed bookings at the same time.       *)
(***************************************************************************)
NextRace ==
    \E w \in Workers :
        \/ \E p \in Props, s \in Dates, e \in Dates : CreateValidate(w, p, s, e, "confirmed")
        \/ CreateSave(w)
        \/ CreateEnqueue(w)
        \/ Respond(w)

SpecRace == Init /\ [][NextRace]_vars

(***************************************************************************)
(* SpecPay: the payment endpoints.  The bookings have been created, one    *)
(* night each on one property, and their notifications enqueued; requests  *)
(* are served one at a time and a handler may end early.                   *)
(***************************************************************************)
InitPay ==
    /\ bookings = [b \in 1..MaxBookings |->
           [property |-> "p1", start_date |-> b, end_date |-> b + 1, status |-> "pending"]]
    /\ payments = << >>
    /\ proc = [w \in Workers |-> Idle]
    /\ queue = 1..MaxBookings

NextPay ==
    \/ CancelRequest("w1")
    \/ UpdateValidate("w1")
    \/ UpdateSave("w1")
    \/ InitiateRequest("w1")
    \/ InitiateCreate("w1")
    \/ VerifyRequest("w1")
    \/ GatewayAnswer("w1")
    \/ InitiateSave("w1")
    \/ VerifyLoad("w1")
    \/ VerifyConfirm("w1")
    \/ VerifySave("w1")
    \/ Abort("w1")
    \/ Respond("w1")

SpecPay == InitPay /\ [][NextPay]_vars

(***************************************************************************)
(* SpecNotify: booking creation by one worker, whose handler may end early *)
(* after any of its statements.                                            *)
(***************************************************************************)
NextNotify ==
    \/ CreateRequest("w1")
    \/ CreateSave("w1")
    \/ CreateEnqueue("w1")
    \/ Abort("w1")
    \/ Respond("w1")

SpecNotify == Init /\ [][NextNotify]_vars

(***************************************************************************)
(* Properties.                                                             *)
(***************************************************************************)
\* A booking that blocks availability: pending or confirmed.
Active(r) == r.status \in {"pending", "confirmed"}

\* The row r is booked for the same property as, and for dates that
\* overlap, the request of rec.
Conflicts(r, rec) ==
    /\ r.property = rec.property_id
    /\ r.start_date < rec.end_date
    /\ rec.start_date < r.end_date

\* The row r and the range [s, e) have a night in common.
SharesNight(r, s, e) ==
    \E d \in Dates : r.start_date <= d /\ d < r.end_date /\ s <= d /\ d < e

\* C1: no two distinct pending or confirmed bookings of the same property
\* have overlapping [start_date, end_date) intervals.
C1_NoActiveOverlap ==
    \A a, b \in DOMAIN bookings :
        (a # b /\ bookings[a].property = bookings[b].property
             /\ Active(bookings[a]) /\ Active(bookings[b]))
        => ~(bookings[a].start_date < bookings[b].end_date
             /\ bookings[b].start_date < bookings[a].end_date)

\* C2: two creation requests for the same property and overlapping ranges
\* whose availability checks both ran before the other's insert (neither
\* check could read the other's row) are never both answered with success
\* and both persisted.
C2_ConcurrentCreatesExclusive ==
    \A w, v \in Workers :
        ~(/\ w # v
          /\ proc[w].op = "create" /\ proc[w].res = "created"
          /\ proc[v].op = "create" /\ proc[v].res = "created"
          /\ proc[w].seen < proc[v].bid /\ proc[v].seen < proc[w].bid
          /\ Conflicts(bookings[proc[w].bid], proc[v])
          /\ Active(bookings[proc[w].bid]) /\ Active(bookings[proc[v].bid]))

\* C3: the two writes of a successful verification are one step: a booking
\* is confirmed only with its payment completed, and no payment is completed
\* while its booking is still pending.
C3_VerifyAtomic ==
    \A q \in DOMAIN payments :
        /\ bookings[payments[q].booking].status = "confirmed"
               => payments[q].status = "completed"
        /\ payments[q].status = "completed"
               => bookings[payments[q].booking].status # "pending"

\* C4: a verification the gateway answers with success ends with the payment
\* completed and the booking confirmed whatever an earlier verification of
\* the reference left behind (nothing, the booking confirmed only, or both
\* writes), and when both writes are already there it changes no row.
C4_VerifyIdempotent ==
    /\ [](\A w \in Workers :
            (proc[w].op = "verify" /\ proc[w].pc = "done" /\ proc[w].res = "completed")
            => /\ payments[proc[w].pid].status = "completed"
               /\ bookings[proc[w].bid].status = "confirmed")
    /\ [][\A w \in Workers :
            (/\ proc[w].op = "verify" /\ proc[w].gw = "success"
             /\ payments[proc[w].pid].status = "completed"
             /\ bookings[proc[w].bid].status = "confirmed")
            => (bookings' = bookings /\ payments' = payments)]_vars

\* A verification answered with success has ended for a payment that was
\* already completed when it was read.
C4_Witness ==
    \E w \in Workers :
        /\ proc[w].op = "verify" /\ proc[w].pc = "done" /\ proc[w].res = "completed"
        /\ proc[w].found = "completed"
        /\ payments[proc[w].pid].status = "completed"
        /\ bookings[proc[w].bid].status = "confirmed"

\* C5: no two payments have the same booking, and the insert of
\* initiate_payment for a booking that has a pending or completed payment
\* ends the request without a new payment row and without a change to the
\* existing one.
C5_OnePaymentPerBooking ==
    /\ [](\A q1, q2 \in DOMAIN payments :
            q1 # q2 => payments[q1].booking # payments[q2].booking)
    /\ [][\A w \in Workers :
            (/\ proc[w].op = "initiate" /\ proc[w].pc = "create"
             /\ \E q \in DOMAIN payments :
                   /\ payments[q].booking = proc[w].bid
                   /\ payments[q].status \in {"pending", "completed"})
            => /\ payments' = payments
               /\ proc'[w].pc = "done"
               /\ proc'[w].res \in {"integrity_error", "server_error"}]_vars

\* initiate_payment has been refused for a booking whose payment is pending
\* or completed.
C5_Witness ==
    \E w \in Workers, q \in DOMAIN payments :
        /\ proc[w].op = "initiate" /\ proc[w].pc = "done"
        /\ proc[w].res = "integrity_error"
        /\ payments[q].booking = proc[w].bid
        /\ payments[q].status \in {"pending", "completed"}
        /\ Len(payments) = 1

\* C6: a booking's status changes only from pending to confirmed, from
\* pending to canceled or from confirmed to canceled; a canceled booking
\* keeps its status.
C6_BookingTransitions ==
    [][\A b \in DOMAIN bookings :
         bookings'[b].status # bookings[b].status
         => <<bookings[b].status, bookings'[b].status>> \in
               {<<"pending", "confirmed">>, <<"pending", "canceled">>,
                <<"confirmed", "canceled">>}]_vars

C8_ActiveBookingsBlock ==
    \A w \in Workers :
        proc[w].op = "create" =>
            /\ proc[w].pc = "save"
                   => ~\E b \in DOMAIN bookings :
                         Active(bookings[b]) /\ Conflicts(bookings[b], proc[w])
            /\ (proc[w].pc = "done" /\ proc[w].res = "overlap_error")
                   => \E b \in DOMAIN bookings :
                         Active(bookings[b]) /\ Conflicts(bookings[b], proc[w])

\* C9: for requests with start_date < end_date, the serializer's check
\* reports a conflict iff a booking it considers (confirmed, same property)
\* has a night in common with the half-open requested range, and the model's
\* check iff a booking of the property has; a range that starts on the day
\* another ends has no night in common with it.
C9_HalfOpenOverlap ==
    \A w \in Workers :
        /\ (proc[w].op = "create" /\ proc[w].pc = "save")
               => ~\E b \in DOMAIN bookings :
                     /\ bookings[b].status = "confirmed"
                     /\ bookings[b].property = proc[w].property_id
                     /\ SharesNight(bookings[b], proc[w].start_date, proc[w].end_date)
        /\ (proc[w].op = "create" /\ proc[w].pc = "done" /\ proc[w].res = "overlap_error")
               => \E b \in DOMAIN bookings :
                     /\ bookings[b].status = "confirmed"
                     /\ bookings[b].property = proc[w].property_id
                     /\ SharesNight(bookings[b], proc[w].start_date, proc[w].end_date)
        /\ (proc[w].op = "clean" /\ proc[w].pc = "done" /\ proc[w].res = "overlap_error")
               => \E b \in DOMAIN bookings :
                     /\ bookings[b].property = proc[w].property_id
                     /\ SharesNight(bookings[b], proc[w].start_date, proc[w].end_date)
        /\ (proc[w].op = "clean" /\ proc[w].pc = "done" /\ proc[w].res = "updated")
               => ~\E b \in DOMAIN bookings :
                     /\ b # proc[w].bid
                     /\ bookings[b].property = proc[w].property_id
                     /\ SharesNight(bookings[b], proc[w].start_date, proc[w].end_date)

\* A creation whose start_date is the end_date of a confirmed booking of the
\* same property has passed the availability check.
C9_Witness ==
    \E w \in Workers, b \in DOMAIN bookings :
        /\ proc[w].op = "create" /\ proc[w].pc = "save"
        /\ bookings[b].status = "confirmed"
        /\ bookings[b].property = proc[w].property_id
        /\ bookings[b].end_date = proc[w].start_date

\* C10: an update of booking X is rejected for overlap only if a booking
\* other than X, of the property, overlaps the requested range, on the
\* serializer's path and on the model's.
C10_OwnRowExcluded ==
    \A w \in Workers :
        (proc[w].op \in {"update", "clean"} /\ proc[w].pc = "done"
             /\ proc[w].res = "overlap_error")
        => \E b \in DOMAIN bookings :
               b # proc[w].bid /\ Conflicts(bookings[b], proc[w])

\* C11: a verification the gateway answers with a failure or an ambiguous
\* response (a 200 whose inner status is not success, or any response that
\* is not a 200 with outer status success) ends with the payment failed, and
\* no step of it changes a booking.
C11_VerifyFailureMarksFailed ==
    /\ [](\A w \in Workers :
            (/\ proc[w].op = "verify" /\ proc[w].pc = "done"
             /\ proc[w].gw \in {"failed", "rejected"}
             /\ proc[w].res \in {"failed", "verification_failed"})
            => payments[proc[w].pid].status = "failed")
    /\ [][\A w \in Workers :
            (proc[w].op = "verify" /\ proc[w].gw \in {"failed", "rejected"})
            => bookings' = bookings]_vars

\* C12 as stated: a verification whose gateway call fails at transport level
\* returns an error and leaves the payment failed.
C12_TransportFailureLeavesFailed ==
    \A w \in Workers :
        (/\ proc[w].op = "verify" /\ proc[w].pc = "done"
         /\ proc[w].gw = "transport_error")
        => /\ proc[w].res = "transport_error"
           /\ payments[proc[w].pid].status = "failed"

\* C12: a verification whose gateway call fails at transport level returns
\* an error and writes nothing: the payment keeps the status it was read
\* with, and no booking changes.
C12_TransportFailureWritesNothing ==
    /\ [](\A w \in Workers :
            (/\ proc[w].op = "verify" /\ proc[w].pc = "done"
             /\ proc[w].gw = "transport_error")
            => /\ proc[w].res = "transport_error"
               /\ payments[proc[w].pid].status = proc[w].found)
    /\ [][\A w \in Workers :
            (/\ proc[w].op = "verify" /\ proc[w].pc = "gateway"
             /\ proc'[w].gw = "transport_error")
            => /\ payments' = payments /\ bookings' = bookings
               /\ proc'[w].pc = "done"]_vars

\* A verification of a pending payment has ended with a transport error, and
\* the payment is still pending.
C12_Witness ==
    \E w \in Workers :
        /\ proc[w].op = "verify" /\ proc[w].pc = "done"
        /\ proc[w].gw = "transport_error" /\ proc[w].res = "transport_error"
        /\ proc[w].found = "pending"
        /\ payments[proc[w].pid].status = "pending"

\* C13: every initiate_payment that has created a payment and has not ended
\* with the gateway's success has ended with an error response and with that
\* payment failed; none leaves the payment pending.
C13_FailedInitiationMarksFailed ==
    \A w \in Workers :
        (/\ proc[w].op = "initiate" /\ proc[w].pc = "done"
         /\ proc[w].pid \in DOMAIN payments
         /\ proc[w].res # "initiated")
        => /\ proc[w].res \in {"gateway_error", "transport_error", "server_error"}
           /\ payments[proc[w].pid].status = "failed"

C16_NotFoundTouchesNothing ==
    /\ [](\A w \in Workers :
            /\ (proc[w].op = "initiate" /\ proc[w].bid \notin DOMAIN bookings)
               => /\ proc[w].pc = "done" /\ proc[w].res = "not_found"
                  /\ proc[w].gw = NoValue /\ proc[w].pid = 0
            /\ (/\ proc[w].op = "verify" /\ proc[w].ref # NoRef
                /\ \A q \in DOMAIN payments : payments[q].booking_reference # proc[w].ref)
               => /\ proc[w].pc = "done" /\ proc[w].res = "not_found"
                  /\ proc[w].gw = NoValue /\ proc[w].pid = 0)
    /\ [][\A w \in Workers :
            (proc'[w].res = "not_found" /\ proc[w].res # "not_found")
            => /\ proc[w].pc = "idle"
               /\ bookings' = bookings /\ payments' = payments]_vars

\* A verify_payment for the reference of an existing booking that has no
\* payment has ended with not-found while another booking has a payment.
C16_Witness ==
    \E w \in Workers :
        /\ proc[w].op = "verify" /\ proc[w].pc = "done" /\ proc[w].res = "not_found"
        /\ proc[w].ref \in {BookingReference(b) : b \in DOMAIN bookings}
        /\ proc[w].gw = NoValue
        /\ Len(payments) = 1

\* C17: a notification job is enqueued only for a booking that has been
\* persisted, by the creation that persisted it and never by one that
\* failed validation, and every booking whose creation has ended has its
\* job in the queue.
C17_NotificationPerBooking ==
    /\ [](queue \subseteq DOMAIN bookings)
    /\ [](\A b \in DOMAIN bookings :
            \/ b \in queue
            \/ \E w \in Workers :
                   proc[w].op = "create" /\ proc[w].pc = "enqueue" /\ proc[w].bid = b)
    /\ [][queue' # queue
          => \E w \in Workers :
                 /\ proc[w].op = "create" /\ proc[w].pc = "enqueue"
                 /\ proc[w].bid \in DOMAIN bookings
                 /\ queue' = queue \cup {proc[w].bid}
                 /\ proc'[w].res = "created"
                 /\ bookings' = bookings]_vars

\* C18: the status of a payment moves from pending to completed or from
\* pending to failed and in no other way: a completed payment is not made
\* failed by a later verification, nor a failed payment completed.
C18_PaymentTransitions ==
    [][\A q \in DOMAIN payments :
          payments'[q].status # payments[q].status
          => /\ payments[q].status = "pending"
             /\ payments'[q].status \in {"completed", "failed"}]_vars

\* C19: whenever a booking is confirmed and no verification of it is between
\* its two saves, the booking has a completed payment; it is never confirmed
\* with its payment pending or failed, whether a verification stopped
\* between the saves or later verifications were answered differently.
C19_ConfirmedHasCompletedPayment ==
    \A b \in DOMAIN bookings :
        (/\ bookings[b].status = "confirmed"
         /\ \A w \in Workers :
                ~(proc[w].op = "verify" /\ proc[w].pc = "save" /\ proc[w].bid = b))
        => \E q \in DOMAIN payments :
               payments[q].booking = b /\ payments[q].status = "completed"

\* C20: a failed payment does not block a retry: the insert of an
\* initiate_payment for a booking whose payment is failed is not refused.
C20_RetryAfterFailedPayment ==
    [][\A w \in Workers :
          (/\ proc[w].op = "initiate" /\ proc[w].pc = "create"
           /\ \E q \in DOMAIN payments :
                  payments[q].booking = proc[w].bid /\ payments[q].status = "failed")
          => proc'[w].res # "integrity_error"]_vars

====
